---------------------------- MODULE Spec2Model ----------------------------
(***************************************************************************)
(* Model of app/main.py: a thread-per-connection HTTP/1.1 server.          *)
(*                                                                         *)
(* A Python str is a sequence of Unicode code points (naturals); a bytes   *)
(* object is a sequence of naturals below 256.  A dict[str, str] is a      *)
(* sequence of <<key, value>> pairs in insertion order with unique keys.   *)
(***************************************************************************)
EXTENDS Integers, Sequences, FiniteSets, TLC

(***************************************************************************)
(* String literals of the source, as code points.                         *)
(***************************************************************************)
CRLF == <<13, 10>>                                         \* "\r\n"
CRLFCRLF == <<13, 10, 13, 10>>                             \* "\r\n\r\n"
SP == <<32>>                                               \* " "
COLON_SP == <<58, 32>>                                     \* ": "
COMMA == <<44>>                                            \* ","
ECHO_PREFIX == <<47, 101, 99, 104, 111, 47>>               \* "/echo/"
USER_AGENT_PATH == <<47, 117, 115, 101, 114, 45, 97, 103, 101, 110, 116>>  \* "/user-agent"
FILES_PREFIX == <<47, 102, 105, 108, 101, 115, 47>>        \* "/files/"
ROOT_PATH == <<47>>                                        \* "/"
GET == <<71, 69, 84>>                                      \* "GET"
HTTP11 == <<72, 84, 84, 80, 47, 49, 46, 49>>               \* "HTTP/1.1"
H_ACCEPT_ENCODING == <<65, 99, 99, 101, 112, 116, 45, 69, 110, 99, 111, 100, 105, 110, 103>>  \* "Accept-Encoding"
H_CONNECTION == <<67, 111, 110, 110, 101, 99, 116, 105, 111, 110>>  \* "Connection"
H_CONTENT_ENCODING == <<67, 111, 110, 116, 101, 110, 116, 45, 69, 110, 99, 111, 100, 105, 110, 103>>  \* "Content-Encoding"
H_CONTENT_TYPE == <<67, 111, 110, 116, 101, 110, 116, 45, 84, 121, 112, 101>>  \* "Content-Type"
H_CONTENT_LENGTH == <<67, 111, 110, 116, 101, 110, 116, 45, 76, 101, 110, 103, 116, 104>>  \* "Content-Length"
H_USER_AGENT == <<85, 115, 101, 114, 45, 65, 103, 101, 110, 116>>  \* "User-Agent"
CLOSE == <<99, 108, 111, 115, 101>>                        \* "close"
UNKNOWN == <<85, 110, 107, 110, 111, 119, 110>>            \* "Unknown"
TEXT_PLAIN == <<116, 101, 120, 116, 47, 112, 108, 97, 105, 110>>  \* "text/plain"
OCTET_STREAM == <<97, 112, 112, 108, 105, 99, 97, 116, 105, 111, 110, 47, 111, 99, 116, 101, 116, 45, 115, 116, 114, 101, 97, 109>>  \* "application/octet-stream"
MSG_OK == <<79, 75>>                                       \* "OK"
MSG_NOT_FOUND == <<78, 111, 116, 32, 70, 111, 117, 110, 100>>  \* "Not Found"
MSG_CREATED == <<67, 114, 101, 97, 116, 101, 100>>         \* "Created"

\* SERVER_ACCEPTED_ENCODINGS = ["gzip"]
SERVER_ACCEPTED_ENCODINGS == << <<103, 122, 105, 112>> >>

(***************************************************************************)
(* Python built-ins used by the source.                                    *)
(***************************************************************************)

\* s[i:] for 0 <= i (Python slicing past the end yields "")
SliceFrom(s, i) == SubSeq(s, i + 1, Len(s))

\* s.startswith(p)
StartsWith(s, p) == Len(p) <= Len(s) /\ SubSeq(s, 1, Len(p)) = p

\* whether sep occurs in s at (1-based) position i
MatchAt(s, sep, i) == i + Len(sep) - 1 <= Len(s) /\ \A k \in 1..Len(sep) : s[i + k - 1] = sep[k]

\* 1-based position of the first occurrence of sep in s at or after i; 0 if none
FindFrom(s, sep, i) ==
    LET hits == {j \in i..(Len(s) - Len(sep) + 1) : MatchAt(s, sep, j)} IN
    IF hits = {} THEN 0 ELSE CHOOSE j \in hits : \A k \in hits : j <= k

\* sep in s
Contains(s, sep) == FindFrom(s, sep, 1) # 0

\* s.split(sep): every piece, empty pieces kept
RECURSIVE Split(_, _)
Split(s, sep) ==
    LET p == FindFrom(s, sep, 1) IN
    IF p = 0 THEN <<s>>
    ELSE <<SubSeq(s, 1, p - 1)>> \o Split(SubSeq(s, p + Len(sep), Len(s)), sep)

\* s.split(sep, 1): at most one cut, at the first occurrence
Split1(s, sep) ==
    LET p == FindFrom(s, sep, 1) IN
    IF p = 0 THEN <<s>>
    ELSE <<SubSeq(s, 1, p - 1), SubSeq(s, p + Len(sep), Len(s))>>

\* str.isspace() for one code point of the ASCII range
IsSpace(c) == c \in {9, 10, 11, 12, 13, 28, 29, 30, 31, 32}

RECURSIVE LStrip(_)
LStrip(s) == IF s # <<>> /\ IsSpace(Head(s)) THEN LStrip(Tail(s)) ELSE s

RECURSIVE RStrip(_)
RStrip(s) == IF s # <<>> /\ IsSpace(s[Len(s)]) THEN RStrip(SubSeq(s, 1, Len(s) - 1)) ELSE s

\* s.strip()
Strip(s) == RStrip(LStrip(s))

\* s.lower() on the ASCII range
Lower(s) == [i \in 1..Len(s) |-> IF s[i] \in 65..90 THEN s[i] + 32 ELSE s[i]]

\* str(n) for n >= 0: decimal digits
RECURSIVE Str(_)
Str(n) == IF n < 10 THEN <<48 + n>> ELSE Str(n \div 10) \o <<48 + (n % 10)>>

\* one code point as UTF-8
EncodeChar(c) ==
    IF c < 128 THEN <<c>>
    ELSE IF c < 2048 THEN <<192 + (c \div 64), 128 + (c % 64)>>
    ELSE IF c < 65536 THEN <<224 + (c \div 4096), 128 + ((c \div 64) % 64), 128 + (c % 64)>>
    ELSE <<240 + (c \div 262144), 128 + ((c \div 4096) % 64), 128 + ((c \div 64) % 64), 128 + (c % 64)>>

\* s.encode("utf-8"): the code points' encodings, concatenated (by halves)
RECURSIVE Encode(_)
Encode(s) ==
    IF s = <<>> THEN <<>>
    ELSE IF Len(s) = 1 THEN EncodeChar(s[1])
    ELSE LET h == Len(s) \div 2 IN
         Encode(SubSeq(s, 1, h)) \o Encode(SubSeq(s, h + 1, Len(s)))

\* a continuation byte 10xxxxxx
IsCont(x) == x \in 128..191

\* one encoded code point: a lead byte and exactly its continuation bytes,
\* neither overlong nor a surrogate nor above U+10FFFF
DecodeOne(b) ==
    LET b1 == b[1]
        conts == \A i \in 2..Len(b) : IsCont(b[i])
    IN IF b1 < 128 /\ Len(b) = 1 THEN [ok |-> TRUE, s |-> <<b1>>]
       ELSE IF b1 \in 194..223 /\ Len(b) = 2 /\ conts
       THEN [ok |-> TRUE, s |-> <<(b1 - 192) * 64 + (b[2] - 128)>>]
       ELSE IF b1 \in 224..239 /\ Len(b) = 3 /\ conts
               /\ (b1 # 224 \/ b[2] >= 160) /\ (b1 # 237 \/ b[2] < 160)
       THEN [ok |-> TRUE, s |-> <<(b1 - 224) * 4096 + (b[2] - 128) * 64 + (b[3] - 128)>>]
       ELSE IF b1 \in 240..244 /\ Len(b) = 4 /\ conts
               /\ (b1 # 240 \/ b[2] >= 144) /\ (b1 # 244 \/ b[2] < 144)
       THEN [ok |-> TRUE, s |-> <<(b1 - 240) * 262144 + (b[2] - 128) * 4096
                                    + (b[3] - 128) * 64 + (b[4] - 128)>>]
       ELSE [ok |-> FALSE, s |-> <<>>]

\* b.decode("utf-8"): [ok |-> TRUE, s |-> str], or ok = FALSE for
\* UnicodeDecodeError.  The bytes are cut at a lead byte near the middle and
\* the two parts decoded.
RECURSIVE Decode(_)
Decode(b) ==
    IF b = <<>> THEN [ok |-> TRUE, s |-> <<>>]
    ELSE LET leads == {i \in 2..Len(b) : ~IsCont(b[i])}
             mid == Len(b) \div 2 + 1
             near == {i \in mid..(mid + 3) : i \in leads}
             m == IF near # {} THEN CHOOSE i \in near : \A j \in near : i <= j
                  ELSE CHOOSE i \in leads : TRUE
         IN IF leads = {} THEN DecodeOne(b)
            ELSE LET l == Decode(SubSeq(b, 1, m - 1))
                     r == Decode(SubSeq(b, m, Len(b)))
                 IN IF l.ok /\ r.ok THEN [ok |-> TRUE, s |-> l.s \o r.s]
                    ELSE [ok |-> FALSE, s |-> <<>>]

(***************************************************************************)
(* dict[str, str]: a sequence of <<key, value>> in insertion order.        *)
(***************************************************************************)
DictHas(d, k) == \E i \in 1..Len(d) : d[i][1] = k

\* d.get(k, default)
DictGet(d, k, default) ==
    IF DictHas(d, k) THEN d[CHOOSE i \in 1..Len(d) : d[i][1] = k][2] ELSE default

\* faulty variant: an existing key keeps its first value
DictSetKeepFirst(d, k, v) ==
    IF DictHas(d, k) THEN d ELSE Append(d, <<k, v>>)

\* d[k] = v: an existing key keeps its place, a new key is appended
DictSet(d, k, v) ==
    IF DictHas(d, k) THEN [i \in 1..Len(d) |-> IF d[i][1] = k THEN <<k, v>> ELSE d[i]]
    ELSE Append(d, <<k, v>>)

\* d.update(e)
RECURSIVE DictUpdate(_, _)
DictUpdate(d, e) ==
    IF e = <<>> THEN d ELSE DictUpdate(DictSet(d, Head(e)[1], Head(e)[2]), Tail(e))

(***************************************************************************)
(* Wire parser.  A raised exception is a value: exc names the exception    *)
(* class, "none" when the call returns.                                    *)
(***************************************************************************)

\* extract_request_info_from_request: request_info[0..2], IndexError when
\* the first line has fewer than three space-separated pieces
extract_request_info_from_request(text) ==
    LET request_info == Split(Split(text, CRLF)[1], SP) IN
    IF Len(request_info) < 3
    THEN [exc |-> "IndexError", method |-> <<>>, path |-> <<>>, protocol |-> <<>>]
    ELSE [exc |-> "none", method |-> request_info[1], path |-> request_info[2],
          protocol |-> request_info[3]]

\* the loop of extract_headers_from_request over the lines after the first:
\* break at the first empty line; ValueError when unpacking line.split(": ", 1)
\* yields one piece only
RECURSIVE HeaderLoop(_, _)
HeaderLoop(lines, headers) ==
    IF lines = <<>> THEN [exc |-> "none", headers |-> headers]
    ELSE IF Head(lines) = <<>> THEN [exc |-> "none", headers |-> headers]
    ELSE LET kv == Split1(Head(lines), COLON_SP) IN
         IF Len(kv) # 2 THEN [exc |-> "ValueError", headers |-> <<>>]
         ELSE HeaderLoop(Tail(lines), DictSet(headers, kv[1], kv[2]))

\* faulty variant: a header line without ": " is skipped instead of raising
extract_headers_lenient(text) ==
    LET lines == Tail(Split(text, CRLF))
        good == SelectSeq(lines, LAMBDA l : Contains(l, COLON_SP) \/ l = <<>>)
    IN HeaderLoop(good, <<>>)

extract_headers_from_request(text) == HeaderLoop(Tail(Split(text, CRLF)), <<>>)

\* faulty variant: the text is split at every separator and the second piece taken
extract_body_second_piece(text) ==
    IF Contains(text, CRLFCRLF) THEN Split(text, CRLFCRLF)[2] ELSE <<>>

extract_body_from_request(text) ==
    IF Contains(text, CRLFCRLF) THEN Split1(text, CRLFCRLF)[2] ELSE <<>>

NoRequest == [method |-> <<>>, path |-> <<>>, protocol |-> <<>>, headers |-> <<>>, body |-> <<>>]

\* extract_http_request_from_request: request line first, then headers, then body
extract_http_request_from_request(text) ==
    LET info == extract_request_info_from_request(text)
        hdrs == extract_headers_from_request(text)
    IN IF info.exc # "none" THEN [exc |-> info.exc, req |-> NoRequest]
       ELSE IF hdrs.exc # "none" THEN [exc |-> hdrs.exc, req |-> NoRequest]
       ELSE [exc |-> "none",
             req |-> [method |-> info.method, path |-> info.path, protocol |-> info.protocol,
                      headers |-> hdrs.headers, body |-> extract_body_from_request(text)]]

(***************************************************************************)
(* Response model and content negotiation.                                 *)
(***************************************************************************)

\* faulty variant: the body is wrapped as a compressed stream (gzip magic bytes first)
handle_compression_applied(body, compression_method) == <<31, 139>> \o body

\* HTTPResponse.handle_compression: returns the body untouched
handle_compression(body, compression_method) == body

\* the header lines of build_response, in the mapping's order
RECURSIVE HeaderLines(_)
HeaderLines(headers) ==
    IF headers = <<>> THEN <<>>
    ELSE Head(headers)[1] \o COLON_SP \o Head(headers)[2] \o CRLF \o HeaderLines(Tail(headers))

\* HTTPResponse.build_response
build_response(r) ==
    LET compressed == DictHas(r.headers, H_CONTENT_ENCODING) IN
    r.protocol \o SP \o Str(r.status_code) \o SP \o r.message \o CRLF
      \o HeaderLines(r.headers)
      \o CRLF
      \o (IF r.body # <<>>
          THEN (IF compressed
                THEN handle_compression(r.body, DictGet(r.headers, H_CONTENT_ENCODING, <<>>))
                ELSE r.body)
          ELSE <<>>)

\* faulty variant: only the first token of Accept-Encoding is considered
FirstAcceptedHeadOnly(accepted_encodings) ==
    IF accepted_encodings = <<>> THEN <<>>
    ELSE IF \E i \in 1..Len(SERVER_ACCEPTED_ENCODINGS) :
                SERVER_ACCEPTED_ENCODINGS[i] = Head(accepted_encodings)
         THEN Head(accepted_encodings)
         ELSE <<>>

\* the first encoding of accepted_encodings that the server supports, <<>> if none
RECURSIVE FirstAccepted(_)
FirstAccepted(accepted_encodings) ==
    IF accepted_encodings = <<>> THEN <<>>
    ELSE IF \E i \in 1..Len(SERVER_ACCEPTED_ENCODINGS) :
                SERVER_ACCEPTED_ENCODINGS[i] = Head(accepted_encodings)
         THEN Head(accepted_encodings)
         ELSE FirstAccepted(Tail(accepted_encodings))

\* [encoding.strip() for encoding in value.split(",")]
AcceptedEncodings(value) ==
    LET parts == Split(value, COMMA) IN [i \in 1..Len(parts) |-> Strip(parts[i])]

\* one pass of the loop of generate_response_headers over the request's items
NegotiateItem(headers, key, value) ==
    IF key = H_ACCEPT_ENCODING
    THEN LET encoding == FirstAccepted(AcceptedEncodings(value)) IN
         IF encoding # <<>> THEN DictSet(headers, H_CONTENT_ENCODING, encoding) ELSE headers
    ELSE IF key = H_CONNECTION THEN DictSet(headers, key, value)
    ELSE headers

RECURSIVE NegotiateLoop(_, _)
NegotiateLoop(headers, items) ==
    IF items = <<>> THEN headers
    ELSE NegotiateLoop(NegotiateItem(headers, Head(items)[1], Head(items)[2]), Tail(items))

\* generate_response_headers(request_headers, additional_headers); an absent
\* argument is the empty mapping
generate_response_headers(request_headers, additional_headers) ==
    IF request_headers = <<>> /\ additional_headers = <<>> THEN <<>>
    ELSE LET headers == DictUpdate(<<>>, additional_headers) IN
         IF request_headers = <<>> THEN headers
         ELSE NegotiateLoop(headers, request_headers)

\* make_response, protocol defaulted to "HTTP/1.1"
make_response(status_code, message, headers, body) ==
    [status_code |-> status_code, protocol |-> HTTP11, headers |-> headers,
     body |-> body, message |-> message]

NoResponse == [status_code |-> 0, protocol |-> <<>>, headers |-> <<>>, body |-> <<>>, message |-> <<>>]

(***************************************************************************)
(* Route handlers without file access.                                     *)
(***************************************************************************)
\* faulty variant: the prefix is cut one character short
handle_echo_short_cut(hreq) ==
    LET message == SliceFrom(hreq.path, Len(ECHO_PREFIX) - 1) IN
    make_response(200, MSG_OK,
        generate_response_headers(hreq.headers,
            << <<H_CONTENT_TYPE, TEXT_PLAIN>>, <<H_CONTENT_LENGTH, Str(Len(message))>> >>),
        message)

handle_echo(hreq) ==
    LET message == SliceFrom(hreq.path, Len(ECHO_PREFIX)) IN
    make_response(200, MSG_OK,
        generate_response_headers(hreq.headers,
            << <<H_CONTENT_TYPE, TEXT_PLAIN>>, <<H_CONTENT_LENGTH, Str(Len(message))>> >>),
        message)

\* faulty variant: a missing User-Agent yields the empty string
handle_user_agent_no_default(hreq) ==
    LET user_agent_header == DictGet(hreq.headers, H_USER_AGENT, <<>>) IN
    make_response(200, MSG_OK,
        generate_response_headers(hreq.headers,
            << <<H_CONTENT_TYPE, TEXT_PLAIN>>, <<H_CONTENT_LENGTH, Str(Len(user_agent_header))>> >>),
        user_agent_header)

handle_user_agent(hreq) ==
    LET user_agent_header == DictGet(hreq.headers, H_USER_AGENT, UNKNOWN) IN
    make_response(200, MSG_OK,
        generate_response_headers(hreq.headers,
            << <<H_CONTENT_TYPE, TEXT_PLAIN>>, <<H_CONTENT_LENGTH, Str(Len(user_agent_header))>> >>),
        user_agent_header)

handle_root(hreq) ==
    make_response(200, MSG_OK, generate_response_headers(hreq.headers, <<>>), <<>>)

\* faulty variant: the fallback answers like the root probe
handle_default_ok(hreq) ==
    make_response(200, MSG_OK, generate_response_headers(hreq.headers, <<>>), <<>>)

\* the else branch of the dispatch in handle_client
handle_default(hreq) ==
    make_response(404, MSG_NOT_FOUND, generate_response_headers(hreq.headers, <<>>), <<>>)

(***************************************************************************)
(* The serving root.  files maps the name of each regular file directly    *)
(* under the root to its bytes.  The server cannot create a directory, so  *)
(* the root holds no subdirectory; the names looked up are relative names  *)
(* without "." or ".." components.                                         *)
(***************************************************************************)
LINESEP == <<10>>                                          \* os.linesep on POSIX

\* what open(f"{directory}/{filename}", mode) raises, "none" when it opens:
\* the root itself is a directory; below a regular file nothing can be looked
\* up (ENOTDIR); below a missing component nothing exists (ENOENT); a missing
\* plain name is created by mode "w"
OpenError(fs, filename, mode) ==
    LET parts == Split(filename, ROOT_PATH) IN
    IF filename = <<>> THEN "IsADirectoryError"
    ELSE IF Len(parts) > 1
         THEN (IF parts[1] \in DOMAIN fs THEN "NotADirectoryError" ELSE "FileNotFoundError")
    ELSE IF filename \in DOMAIN fs THEN "none"
    ELSE IF mode = "w" THEN "none"
    ELSE "FileNotFoundError"

\* text-mode reading with newline=None: "\r\n" and "\r" become "\n"
RECURSIVE TranslateNewlines(_)
TranslateNewlines(s) ==
    IF s = <<>> THEN <<>>
    ELSE IF Head(s) = 13
         THEN (IF Len(s) > 1 /\ s[2] = 10
               THEN <<10>> \o TranslateNewlines(SubSeq(s, 3, Len(s)))
               ELSE <<10>> \o TranslateNewlines(Tail(s)))
    ELSE <<Head(s)>> \o TranslateNewlines(Tail(s))

\* f.read() of a file opened with mode "r": decode, then translate newlines
ReadText(bytes) ==
    LET d == Decode(bytes) IN [ok |-> d.ok, s |-> IF d.ok THEN TranslateNewlines(d.s) ELSE <<>>]

\* text-mode writing with newline=None: "\n" becomes os.linesep, then encode
RECURSIVE WriteNewlines(_)
WriteNewlines(s) ==
    IF s = <<>> THEN <<>>
    ELSE (IF Head(s) = 10 THEN LINESEP ELSE <<Head(s)>>) \o WriteNewlines(Tail(s))

WriteText(s) == Encode(WriteNewlines(s))

\* the bytes of a file after a write of b at offset 0 (the descriptor's own
\* position after open): b replaces the first Len(b) bytes
WriteAt0(old, b) == b \o SubSeq(old, Len(b) + 1, Len(old))

\* the filename of a /files/ request
Filename(hreq) == SliceFrom(hreq.path, Len(FILES_PREFIX))

\* handle_get_files: only FileNotFoundError is caught
handle_get_files(hreq, fs) ==
    LET filename == Filename(hreq)
        err == OpenError(fs, filename, "r")
        content == IF err = "none" THEN ReadText(fs[filename]) ELSE [ok |-> FALSE, s |-> <<>>]
    IN IF err = "FileNotFoundError"
       THEN [exc |-> "none",
             response |-> make_response(404, MSG_NOT_FOUND,
                              generate_response_headers(hreq.headers, <<>>), <<>>)]
       ELSE IF err # "none" THEN [exc |-> err, response |-> NoResponse]
       ELSE IF ~content.ok THEN [exc |-> "UnicodeDecodeError", response |-> NoResponse]
       ELSE [exc |-> "none",
             response |-> make_response(200, MSG_OK,
                              generate_response_headers(hreq.headers,
                                  << <<H_CONTENT_TYPE, OCTET_STREAM>>,
                                     <<H_CONTENT_LENGTH, Str(Len(content.s))>> >>),
                              content.s)]

\* faulty variant: the write is acknowledged with 200 OK
post_files_response_ok(hreq) ==
    make_response(200, MSG_OK, generate_response_headers(hreq.headers, <<>>), <<>>)

\* the return of handle_post_files
post_files_response(hreq) ==
    make_response(201, MSG_CREATED, generate_response_headers(hreq.headers, <<>>), <<>>)

\* faulty variant: the value is compared without lower-casing
CloseRequestedExactCase(hreq) == DictGet(hreq.headers, H_CONNECTION, <<>>) = CLOSE

\* close_connection of handle_client
CloseRequested(hreq) == Lower(DictGet(hreq.headers, H_CONNECTION, <<>>)) = CLOSE

(***************************************************************************)
(* Inputs: the chunks a peer sends, and the serving root at startup.       *)
(***************************************************************************)
POST == <<80, 79, 83, 84>>  \* "POST"
PATH_ECHO_ABC == <<47, 101, 99, 104, 111, 47, 97, 98, 99>>  \* "/echo/abc"
PATH_ECHO_EMPTY == <<47, 101, 99, 104, 111, 47>>  \* "/echo/"
PATH_ECHO_SLASH == <<47, 101, 99, 104, 111, 47, 97, 47, 98>>  \* "/echo/a/b"
PATH_ECHO_LONG == <<47, 101, 99, 104, 111, 47, 48, 49, 50, 51, 52, 53, 54, 55, 56, 57, 97, 98>>  \* "/echo/0123456789ab"
PATH_ECHO_ACUTE == <<47, 101, 99, 104, 111, 47, 233>>  \* "/echo/é"
PATH_ECHO_BARE == <<47, 101, 99, 104, 111>>  \* "/echo"
PATH_FILES_A == <<47, 102, 105, 108, 101, 115, 47, 97>>  \* "/files/a"
PATH_FILES_DIR == <<47, 102, 105, 108, 101, 115, 47>>  \* "/files/"
PATH_FILES_SUB == <<47, 102, 105, 108, 101, 115, 47, 97, 47, 98>>  \* "/files/a/b"
PATH_UNKNOWN == <<47, 117, 110, 107, 110, 111, 119, 110, 47, 112, 97, 116, 104>>  \* "/unknown/path"
NAME_A == <<97>>  \* "a"
V_GZIP == <<103, 122, 105, 112>>  \* "gzip"
V_BR_GZIP == <<98, 114, 44, 32, 103, 122, 105, 112>>  \* "br, gzip"
V_BR == <<98, 114>>  \* "br"
V_GZIPX == <<103, 122, 105, 112, 120>>  \* "gzipx"
V_KEEP_ALIVE == <<107, 101, 101, 112, 45, 97, 108, 105, 118, 101>>  \* "keep-alive"
V_TEST_AGENT == <<116, 101, 115, 116, 45, 97, 103, 101, 110, 116>>  \* "test-agent"
BODY_HI == <<104, 105>>  \* "hi"
BODY_CRLF == <<120, 13, 10, 121>>  \* "x\r\ny"
BODY_OLD == <<111, 108, 100>>  \* "old"
LINE_TWO_TOKENS == <<71, 69, 84, 32, 47>>  \* "GET /"
LINE_BAD_HEADER == <<66, 97, 100>>  \* "Bad"
PUT == <<80, 85, 84>>  \* "PUT"
GET_LOWER == <<103, 101, 116>>  \* "get"
H_X_TAG == <<88, 45, 84, 97, 103>>  \* "X-Tag"
H_CONNECTION_LOWER == <<99, 111, 110, 110, 101, 99, 116, 105, 111, 110>>  \* "connection"
V_ONE == <<49>>  \* "1"
V_TWO == <<50>>  \* "2"
V_CLOSE_CAPITAL == <<67, 108, 111, 115, 101>>  \* "Close"
V_CLOSE_UPPER == <<67, 76, 79, 83, 69>>  \* "CLOSE"

\* a request as a client serialises it: request line, header lines, empty line, body
RECURSIVE ClientHeaderLines(_)
ClientHeaderLines(hs) ==
    IF hs = <<>> THEN <<>>
    ELSE Head(hs)[1] \o COLON_SP \o Head(hs)[2] \o CRLF \o ClientHeaderLines(Tail(hs))

Req(method, path, hs, body) ==
    Encode(method \o SP \o path \o SP \o HTTP11 \o CRLF \o ClientHeaderLines(hs) \o CRLF \o body)

Methods == {GET, POST}

Paths == {PATH_ECHO_ABC, PATH_ECHO_EMPTY, PATH_ECHO_SLASH, PATH_ECHO_LONG, PATH_ECHO_ACUTE,
          PATH_ECHO_BARE, USER_AGENT_PATH, PATH_FILES_A, PATH_FILES_DIR, PATH_FILES_SUB,
          ROOT_PATH, PATH_UNKNOWN}

HeaderSets == {
    <<>>,
    << <<H_CONNECTION, CLOSE>> >>,
    << <<H_CONNECTION, V_KEEP_ALIVE>> >>,
    << <<H_ACCEPT_ENCODING, V_GZIP>> >>,
    << <<H_ACCEPT_ENCODING, V_BR_GZIP>> >>,
    << <<H_ACCEPT_ENCODING, V_BR>> >>,
    << <<H_ACCEPT_ENCODING, V_GZIPX>> >>,
    << <<H_USER_AGENT, V_TEST_AGENT>> >>,
    << <<H_USER_AGENT, <<>> >> >>,
    << <<H_X_TAG, V_ONE>>, <<H_USER_AGENT, V_TEST_AGENT>>, <<H_X_TAG, V_TWO>> >>,
    << <<H_CONNECTION, V_CLOSE_CAPITAL>> >>,
    << <<H_CONNECTION, V_CLOSE_UPPER>> >>,
    << <<H_CONNECTION_LOWER, CLOSE>> >>,
    << <<H_USER_AGENT, V_TEST_AGENT>>, <<H_ACCEPT_ENCODING, V_BR_GZIP>>, <<H_CONNECTION, CLOSE>> >> }

Bodies == {<<>>, BODY_HI, BODY_CRLF}

\* chunks that do not parse: a two-token request line, a header line without
\* ": ", and bytes that are not UTF-8
Malformed == {
    Encode(LINE_TWO_TOKENS \o CRLF \o CRLF),
    Encode(GET \o SP \o ROOT_PATH \o SP \o HTTP11 \o CRLF \o LINE_BAD_HEADER \o CRLF \o CRLF),
    <<71, 255>> }

\* one read that returns two requests back to back
Concatenated == {
    Req(POST, PATH_FILES_A, <<>>, <<>>) \o Req(GET, ROOT_PATH, <<>>, <<>>),
    Req(GET, PATH_ECHO_ABC, <<>>, <<>>) \o Req(GET, PATH_UNKNOWN, <<>>, <<>>) }

\* the tail of a message whose head came with an earlier read
Fragments == {Encode(BODY_HI)}

\* the chunks of one peer served alone
SeqChunks ==
    {Req(m, p, hs, <<>>) : m \in Methods, p \in Paths, hs \in HeaderSets}
      \cup {Req(m, PATH_FILES_A, hs, b) : m \in Methods, hs \in {<<>>, << <<H_CONNECTION, CLOSE>> >>},
                                          b \in Bodies}
      \cup {Req(m, p, <<>>, BODY_HI) : m \in {PUT, GET_LOWER}, p \in {PATH_FILES_A, ROOT_PATH}}
      \cup Concatenated
      \cup Fragments
      \cup Malformed

\* the chunks of peers served concurrently
ConcChunks ==
    {Req(GET, PATH_FILES_A, <<>>, <<>>),
     Req(POST, PATH_FILES_A, <<>>, BODY_HI),
     Req(POST, PATH_FILES_A, << <<H_CONNECTION, CLOSE>> >>, BODY_CRLF),
     Req(GET, PATH_FILES_SUB, <<>>, <<>>),
     Req(GET, PATH_FILES_DIR, << <<H_CONNECTION, CLOSE>> >>, <<>>),
     Req(GET, PATH_ECHO_ABC, << <<H_CONNECTION, CLOSE>> >>, <<>>),
     Req(GET, ROOT_PATH, <<>>, <<>>),
     Req(GET, USER_AGENT_PATH, <<>>, <<>>),
     Req(POST, PATH_UNKNOWN, <<>>, <<>>),
     Encode(LINE_TWO_TOKENS \o CRLF \o CRLF)}

\* request header mappings handed to generate_response_headers
NegotiationRequests == {DictUpdate(<<>>, hs) : hs \in HeaderSets}

V_IDENTITY == <<105, 100, 101, 110, 116, 105, 116, 121>>  \* "identity"

\* additional header mappings a handler may hand to generate_response_headers
NegotiationAdditional == {
    <<>>,
    << <<H_CONTENT_TYPE, TEXT_PLAIN>> >>,
    << <<H_CONTENT_TYPE, TEXT_PLAIN>>, <<H_CONTENT_LENGTH, V_ONE>> >>,
    << <<H_CONTENT_TYPE, OCTET_STREAM>>, <<H_CONTENT_LENGTH, V_TWO>> >>,
    << <<H_CONTENT_ENCODING, V_IDENTITY>> >>,
    << <<H_CONTENT_ENCODING, V_GZIP>> >>,
    << <<H_CONNECTION, V_KEEP_ALIVE>> >>,
    << <<H_CONNECTION, CLOSE>> >>,
    << <<H_CONTENT_TYPE, TEXT_PLAIN>>, <<H_CONTENT_ENCODING, V_IDENTITY>>,
       <<H_CONNECTION, V_KEEP_ALIVE>> >> }

\* the serving root at startup: empty, or holding file "a"
InitialFiles == {<<>>, [n \in {NAME_A} |-> Encode(BODY_OLD)]}

(***************************************************************************)
(* State.                                                                  *)
(***************************************************************************)
MaxChunks == 2          \* chunks read per connection

Conns == {1, 2}         \* connections the accept loop hands out

VARIABLES
    pc,                 \* per connection: where its worker stands in handle_client
    request,            \* the decoded chunk of the last recv
    http_request,       \* the parsed request
    close_connection,   \* the flag computed from the request
    response,           \* the response built for the request
    exc,                \* the exception that ended handle_client, "none" if none
    sent,               \* the byte strings passed to sendall since the last recv
    nread,              \* non-empty chunks read so far
    nsent,              \* sendall calls so far
    files,              \* the serving root
    posted,             \* per file name: the body of the last completed write, if any
    peer_closed,        \* per connection: the peer has shut its end and recv returned b""
    closes,             \* per connection: calls of conn.close() so far
    negotiation         \* the last direct call of generate_response_headers, NoCall if none

vars == <<pc, request, http_request, close_connection, response, exc, sent, nread, nsent, files, posted,
          peer_closed, closes, negotiation>>

NoBody == <<-1>>        \* no write to the name completed since it was last opened for writing

NoCall == [request_headers |-> <<>>, additional_headers |-> <<>>, headers |-> <<>>, called |-> FALSE]

(***************************************************************************)
(* Operations.                                                             *)
(***************************************************************************)

\* main: accept a connection and start its worker thread
Accept(c) ==
    /\ pc[c] = "unaccepted"
    /\ pc' = [pc EXCEPT ![c] = "recv"]
    /\ UNCHANGED <<request, http_request, close_connection, response, exc, sent, nread, nsent, files, posted, peer_closed, closes, negotiation>>

\* faulty variant: an uncaught exception ends the process and with it every connection
RaiseEndsProcess(c, e) ==
    /\ pc' = [d \in Conns |-> "closed"]
    /\ exc' = [exc EXCEPT ![c] = e]
    /\ closes' = [closes EXCEPT ![c] = @ + 1]

\* an exception leaves handle_client through finally: conn.close()
Raise(c, e) ==
    /\ pc' = [pc EXCEPT ![c] = "closed"]
    /\ exc' = [exc EXCEPT ![c] = e]
    /\ closes' = [closes EXCEPT ![c] = @ + 1]

\* from conn.recv's chunk to close_connection: decode, parse, and the flag;
\* exc names the exception raised on the way
Received(chunk) ==
    LET d == Decode(chunk)
        parsed == extract_http_request_from_request(d.s)
    IN IF ~d.ok
       THEN [exc |-> "UnicodeDecodeError", request |-> <<>>, http_request |-> NoRequest,
             close_connection |-> FALSE]
       ELSE IF parsed.exc # "none"
       THEN [exc |-> parsed.exc, request |-> d.s, http_request |-> NoRequest,
             close_connection |-> FALSE]
       ELSE [exc |-> "none", request |-> d.s, http_request |-> parsed.req,
             close_connection |-> CloseRequested(parsed.req)]

\* Received, tabulated over the chunks of the model
ReceivedTable == {[chunk |-> chunk, r |-> Received(chunk)] : chunk \in SeqChunks \cup ConcChunks}

ReceivedOf(chunk) == (CHOOSE e \in ReceivedTable : e.chunk = chunk).r

\* conn.recv returns the non-empty chunk; decode and parse it
Recv(c, chunk) ==
    /\ pc[c] = "recv"
    /\ nread[c] < MaxChunks
    /\ nread' = [nread EXCEPT ![c] = @ + 1]
    /\ sent' = [sent EXCEPT ![c] = <<>>]
    /\ response' = [response EXCEPT ![c] = NoResponse]
    /\ LET r == ReceivedOf(chunk) IN
       /\ request' = [request EXCEPT ![c] = r.request]
       /\ http_request' = [http_request EXCEPT ![c] = r.http_request]
       /\ close_connection' = [close_connection EXCEPT ![c] = r.close_connection]
       /\ IF r.exc # "none"
          THEN Raise(c, r.exc)
          ELSE /\ pc' = [pc EXCEPT ![c] = "routing"]
               /\ UNCHANGED <<exc, closes>>
    /\ UNCHANGED <<nsent, files, posted, peer_closed, negotiation>>

\* faulty variant: the loop is left without closing the socket
RecvEOFLeaks(c) ==
    /\ pc[c] = "recv"
    /\ pc' = [pc EXCEPT ![c] = "closed"]
    /\ peer_closed' = [peer_closed EXCEPT ![c] = TRUE]
    /\ UNCHANGED <<request, http_request, close_connection, response, exc, sent, nread, nsent, files,
                   posted, closes, negotiation>>

\* conn.recv returns b"": the peer closed; break, then finally: conn.close()
RecvEOF(c) ==
    /\ pc[c] = "recv"
    /\ pc' = [pc EXCEPT ![c] = "closed"]
    /\ closes' = [closes EXCEPT ![c] = @ + 1]
    /\ peer_closed' = [peer_closed EXCEPT ![c] = TRUE]
    /\ UNCHANGED <<request, http_request, close_connection, response, exc, sent, nread, nsent, files, posted, negotiation>>

\* a handler that returns a response without touching the files
Respond(c, r) ==
    /\ response' = [response EXCEPT ![c] = r]
    /\ pc' = [pc EXCEPT ![c] = "send"]
    /\ UNCHANGED <<request, http_request, close_connection, exc, sent, nread, nsent, files, posted, peer_closed, closes, negotiation>>

\* the conditions of the if/elif/else chain that dispatches on the path
IsEchoRoute(path) == StartsWith(path, ECHO_PREFIX)

IsUserAgentRoute(path) ==
    /\ ~StartsWith(path, ECHO_PREFIX)
    /\ path = USER_AGENT_PATH

IsFilesRoute(path) ==
    /\ ~StartsWith(path, ECHO_PREFIX)
    /\ path # USER_AGENT_PATH
    /\ StartsWith(path, FILES_PREFIX)

IsRootRoute(path) ==
    /\ ~StartsWith(path, ECHO_PREFIX)
    /\ path # USER_AGENT_PATH
    /\ ~StartsWith(path, FILES_PREFIX)
    /\ path = ROOT_PATH

IsDefaultRoute(path) ==
    /\ ~StartsWith(path, ECHO_PREFIX)
    /\ path # USER_AGENT_PATH
    /\ ~StartsWith(path, FILES_PREFIX)
    /\ path # ROOT_PATH

RouteEcho(c) ==
    /\ pc[c] = "routing"
    /\ IsEchoRoute(http_request[c].path)
    /\ Respond(c, handle_echo(http_request[c]))

RouteUserAgent(c) ==
    /\ pc[c] = "routing"
    /\ IsUserAgentRoute(http_request[c].path)
    /\ Respond(c, handle_user_agent(http_request[c]))

\* handle_files, method GET: handle_get_files
RouteFilesGet(c) ==
    /\ pc[c] = "routing"
    /\ IsFilesRoute(http_request[c].path)
    /\ http_request[c].method = GET
    /\ LET got == handle_get_files(http_request[c], files) IN
       IF got.exc # "none"
       THEN /\ Raise(c, got.exc)
            /\ UNCHANGED response
       ELSE /\ response' = [response EXCEPT ![c] = got.response]
            /\ pc' = [pc EXCEPT ![c] = "send"]
            /\ UNCHANGED <<exc, closes>>
    /\ UNCHANGED <<request, http_request, close_connection, sent, nread, nsent, files, posted, peer_closed, negotiation>>

\* handle_files, any other method: handle_post_files up to open(full_path, "w"),
\* which truncates or creates the file
RouteFilesOpen(c) ==
    /\ pc[c] = "routing"
    /\ IsFilesRoute(http_request[c].path)
    /\ http_request[c].method # GET
    /\ LET filename == Filename(http_request[c])
           err == OpenError(files, filename, "w")
       IN IF err # "none"
          THEN /\ Raise(c, err)
               /\ UNCHANGED <<files, posted>>
          ELSE /\ pc' = [pc EXCEPT ![c] = "writing"]
               /\ files' = [n \in DOMAIN files \cup {filename} |->
                               IF n = filename THEN <<>> ELSE files[n]]
               /\ posted' = [n \in DOMAIN posted \cup {filename} |->
                               IF n = filename THEN NoBody ELSE posted[n]]
               /\ UNCHANGED <<exc, closes>>
    /\ UNCHANGED <<request, http_request, close_connection, response, sent, nread, nsent, peer_closed, negotiation>>

\* handle_post_files from f.write to the return: the buffered body reaches the
\* file when the with block closes it
WriteClose(c) ==
    /\ pc[c] = "writing"
    /\ LET filename == Filename(http_request[c]) IN
       /\ files' = [files EXCEPT ![filename] = WriteAt0(@, WriteText(http_request[c].body))]
       /\ posted' = [posted EXCEPT ![filename] = http_request[c].body]
    /\ response' = [response EXCEPT ![c] = post_files_response(http_request[c])]
    /\ pc' = [pc EXCEPT ![c] = "send"]
    /\ UNCHANGED <<request, http_request, close_connection, exc, sent, nread, nsent, peer_closed, closes, negotiation>>

RouteRoot(c) ==
    /\ pc[c] = "routing"
    /\ IsRootRoute(http_request[c].path)
    /\ Respond(c, handle_root(http_request[c]))

RouteDefault(c) ==
    /\ pc[c] = "routing"
    /\ IsDefaultRoute(http_request[c].path)
    /\ Respond(c, handle_default(http_request[c]))

\* conn.sendall(response.build_response().encode("utf-8")), then the test of
\* close_connection: break (and finally: conn.close()) or loop to recv
Send(c) ==
    /\ pc[c] = "send"
    /\ sent' = [sent EXCEPT ![c] = Append(@, Encode(build_response(response[c])))]
    /\ nsent' = [nsent EXCEPT ![c] = @ + 1]
    /\ pc' = [pc EXCEPT ![c] = IF close_connection[c] THEN "closed" ELSE "recv"]
    /\ closes' = [closes EXCEPT ![c] = IF close_connection[c] THEN @ + 1 ELSE @]
    /\ UNCHANGED <<request, http_request, close_connection, response, exc, nread, files, posted, peer_closed, negotiation>>

\* conn.recv or conn.sendall raises because the peer reset the connection; the
\* exception leaves handle_client through finally: conn.close()
SockError(c) ==
    /\ pc[c] \in {"recv", "send"}
    /\ Raise(c, "ConnectionResetError")
    /\ UNCHANGED <<request, http_request, close_connection, response, sent, nread, nsent, files, posted,
                   peer_closed, negotiation>>

Init ==
    /\ pc = [c \in Conns |-> "unaccepted"]
    /\ request = [c \in Conns |-> <<>>]
    /\ http_request = [c \in Conns |-> NoRequest]
    /\ close_connection = [c \in Conns |-> FALSE]
    /\ response = [c \in Conns |-> NoResponse]
    /\ exc = [c \in Conns |-> "none"]
    /\ sent = [c \in Conns |-> <<>>]
    /\ nread = [c \in Conns |-> 0]
    /\ nsent = [c \in Conns |-> 0]
    /\ files \in InitialFiles
    /\ posted = [n \in DOMAIN files |-> NoBody]
    /\ peer_closed = [c \in Conns |-> FALSE]
    /\ closes = [c \in Conns |-> 0]
    /\ negotiation = NoCall

\* one step of the worker of connection c
Worker(c) ==
    \/ RecvEOF(c)
    \/ RouteEcho(c)
    \/ RouteUserAgent(c)
    \/ RouteFilesGet(c)
    \/ RouteFilesOpen(c)
    \/ WriteClose(c)
    \/ RouteRoot(c)
    \/ RouteDefault(c)
    \/ Send(c)
    \/ SockError(c)

\* concurrent workers, one per accepted connection
Next ==
    \E c \in Conns :
        \/ Accept(c)
        \/ \E chunk \in ConcChunks : Recv(c, chunk)
        \/ Worker(c)

Spec == Init /\ [][Next]_vars

\* generate_response_headers called on its own
Negotiate ==
    /\ \E r \in NegotiationRequests, a \in NegotiationAdditional :
           negotiation' = [request_headers |-> r, additional_headers |-> a,
                           headers |-> generate_response_headers(r, a), called |-> TRUE]
    /\ UNCHANGED <<pc, request, http_request, close_connection, response, exc, sent, nread, nsent,
                   files, posted, peer_closed, closes>>

NextNegotiate == Negotiate

SpecNegotiate == Init /\ [][NextNegotiate]_vars

\* a single connection, every input
NextSeq ==
    \/ Accept(1)
    \/ \E chunk \in SeqChunks : Recv(1, chunk)
    \/ Worker(1)

SpecSeq == Init /\ [][NextSeq]_vars

(***************************************************************************)
(* Vocabulary of the properties.                                           *)
(***************************************************************************)
V_CLOSE == <<99, 108, 111, 115, 101>>                      \* "close"
DIGIT_SEVEN == <<55>>                                      \* "7"
DIGITS_TWELVE == <<49, 50>>                                \* "12"

\* the request line has fewer than three space-separated tokens
FewTokens(text) == Len(Split(Split(text, CRLF)[1], SP)) < 3

\* a line before the first empty line, after the request line, lacks ": "
BadHeaderLine(text) ==
    LET lines == Split(text, CRLF) IN
    \E i \in 2..Len(lines) :
        /\ lines[i] # <<>>
        /\ ~Contains(lines[i], COLON_SP)
        /\ \A j \in 2..(i - 1) : lines[j] # <<>>

\* the last chunk read on c does not parse
ParseFailed(c) == nread[c] > 0 /\ (FewTokens(request[c]) \/ BadHeaderLine(request[c]))

\* the last chunk read on c parsed into a request
ParsedOk(c) == nread[c] > 0 /\ ~FewTokens(request[c]) /\ ~BadHeaderLine(request[c])

\* the worker is through with the last chunk: back at recv, or out of the loop
ExchangeOver(c) == nread[c] > 0 /\ pc[c] \in {"recv", "closed"}

\* a response was built for the last chunk
Built(c) == response[c] # NoResponse

\* exactly one response went out for the last chunk
Served(c) == Len(sent[c]) = 1

\* the header line "name: value" is among the header lines of the wire message
WireHasHeader(msg, name, value) == Contains(msg, Encode(CRLF \o name \o COLON_SP \o value \o CRLF))

\* the bytes of the wire message after its first empty line
WireBody(msg) == Split1(msg, CRLFCRLF)[2]

\* the connection is still served: the worker waits in recv, or left only
\* because the peer closed
StaysOpen(c) == pc[c] = "recv" \/ (pc[c] = "closed" /\ peer_closed[c] /\ exc[c] = "none")

(***************************************************************************)
(* C1.  Every successfully parsed request: with "Connection: close" the    *)
(* response written carries "Connection: close" and the worker closes the  *)
(* connection after this exchange; without a Connection header a response  *)
(* is written and the connection stays open for the next request.  (A      *)
(* reset of the socket by the peer is left aside.)                         *)
(***************************************************************************)
C1_Claim ==
    \A c \in Conns :
        (ParsedOk(c) /\ ExchangeOver(c) /\ exc[c] # "ConnectionResetError") =>
            /\ DictGet(http_request[c].headers, H_CONNECTION, <<>>) = V_CLOSE =>
                   /\ Served(c)
                   /\ WireHasHeader(sent[c][1], H_CONNECTION, V_CLOSE)
                   /\ pc[c] = "closed"
            /\ ~DictHas(http_request[c].headers, H_CONNECTION) =>
                   /\ Served(c)
                   /\ StaysOpen(c)

(***************************************************************************)
(* C2.  When the chunk read does not parse (request line with fewer than   *)
(* three tokens, or a header line without ": " before the first empty      *)
(* line), nothing is written for it, the connection is closed, the         *)
(* responses sent before are all that was sent, and a closed connection    *)
(* takes no further step.                                                  *)
(***************************************************************************)
C2_ParseFailureClosesSilently ==
    \A c \in Conns :
        /\ ParseFailed(c) =>
               /\ sent[c] = <<>>
               /\ response[c] = NoResponse
               /\ pc[c] = "closed"
               /\ exc[c] # "none"
               /\ nsent[c] = nread[c] - 1
        /\ pc[c] = "closed" =>
               ~ENABLED (Worker(c) \/ \E chunk \in SeqChunks \cup ConcChunks : Recv(c, chunk))

\* a header line without ": " arrives after one answered request on the same connection
C2_Witness ==
    \E c \in Conns :
        /\ BadHeaderLine(request[c]) /\ ~FewTokens(request[c])
        /\ nread[c] = 2 /\ nsent[c] = 1
        /\ pc[c] = "closed" /\ sent[c] = <<>>

(***************************************************************************)
(* C3.  For every successfully parsed request, whatever the file system    *)
(* answers, handle_client does not end by an exception and exactly one     *)
(* response is sent.  (A reset of the socket by the peer is left aside.)   *)
(***************************************************************************)
C3_Claim ==
    \A c \in Conns :
        (ParsedOk(c) /\ exc[c] # "ConnectionResetError") =>
            /\ exc[c] = "none"
            /\ ExchangeOver(c) => Served(c)

(***************************************************************************)
(* C4.  Write-then-read round trip, one connection: when the last          *)
(* completed write to a name stored body b, a GET of that name is answered *)
(* 200 with body exactly b and Content-Length equal to the length of b.    *)
(***************************************************************************)
C4_Claim ==
    \A c \in Conns :
        LET name == Filename(http_request[c]) IN
        (/\ pc[c] = "send"
         /\ http_request[c].method = GET
         /\ StartsWith(http_request[c].path, FILES_PREFIX)
         /\ name \in DOMAIN posted
         /\ posted[name] # NoBody) =>
            /\ response[c].status_code = 200
            /\ response[c].body = posted[name]
            /\ DictGet(response[c].headers, H_CONTENT_LENGTH, <<>>) = Str(Len(posted[name]))

(***************************************************************************)
(* C5.  Every response sent with a non-empty body carries a Content-Length *)
(* header whose value is the number of bytes of the body on the wire.      *)
(***************************************************************************)
C5_Claim ==
    \A c \in Conns :
        (Served(c) /\ response[c].body # <<>>) =>
            /\ DictHas(response[c].headers, H_CONTENT_LENGTH)
            /\ DictGet(response[c].headers, H_CONTENT_LENGTH, <<>>) = Str(Len(WireBody(sent[c][1])))

(***************************************************************************)
(* C6.  Whatever the handler, the response has "Content-Encoding: gzip"    *)
(* exactly when the request has an Accept-Encoding header one of whose     *)
(* comma-separated, whitespace-trimmed tokens is "gzip"; otherwise it has  *)
(* no Content-Encoding header.                                             *)
(***************************************************************************)
V_GZIP_TOKEN == <<103, 122, 105, 112>>                     \* "gzip"

AcceptsGzip(headers) ==
    /\ DictHas(headers, H_ACCEPT_ENCODING)
    /\ LET tokens == Split(DictGet(headers, H_ACCEPT_ENCODING, <<>>), COMMA) IN
       \E i \in 1..Len(tokens) : Strip(tokens[i]) = V_GZIP_TOKEN

C6_EncodingNegotiatedOnEveryRoute ==
    \A c \in Conns :
        Built(c) =>
            /\ DictHas(response[c].headers, H_CONTENT_ENCODING) <=> AcceptsGzip(http_request[c].headers)
            /\ DictHas(response[c].headers, H_CONTENT_ENCODING) =>
                   DictGet(response[c].headers, H_CONTENT_ENCODING, <<>>) = V_GZIP_TOKEN
            /\ Served(c) =>
                   (WireHasHeader(sent[c][1], H_CONTENT_ENCODING, V_GZIP_TOKEN)
                        <=> AcceptsGzip(http_request[c].headers))

\* "Accept-Encoding: br, gzip" on the file handler's 404 gets "Content-Encoding: gzip"
C6_Witness ==
    \E c \in Conns :
        /\ Served(c)
        /\ DictGet(http_request[c].headers, H_ACCEPT_ENCODING, <<>>) = V_BR_GZIP
        /\ StartsWith(http_request[c].path, FILES_PREFIX)
        /\ response[c].status_code = 404
        /\ WireHasHeader(sent[c][1], H_CONTENT_ENCODING, V_GZIP_TOKEN)

(***************************************************************************)
(* C7.  Routing is total and first-match: a parsed request selects exactly *)
(* one route; /echo/... gives 200, else /user-agent gives 200, else        *)
(* /files/... goes to the file handler (GET: 200 or 404, other: 201), else *)
(* / gives 200 with empty body, else 404 with empty body.  The method does *)
(* not enter rules 1, 2, 4 and 5.                                          *)
(***************************************************************************)
SelectedRoutes(c) ==
    {r \in 1..5 :
        \/ r = 1 /\ IsEchoRoute(http_request[c].path)
        \/ r = 2 /\ IsUserAgentRoute(http_request[c].path)
        \/ r = 3 /\ IsFilesRoute(http_request[c].path)
        \/ r = 4 /\ IsRootRoute(http_request[c].path)
        \/ r = 5 /\ IsDefaultRoute(http_request[c].path)}

C7_RoutingTotalAndOrdered ==
    \A c \in Conns :
        /\ pc[c] = "routing" => Cardinality(SelectedRoutes(c)) = 1
        /\ Built(c) =>
            LET path == http_request[c].path
                r == response[c]
            IN IF StartsWith(path, ECHO_PREFIX) THEN r.status_code = 200 /\ r.message = MSG_OK
               ELSE IF path = USER_AGENT_PATH THEN r.status_code = 200 /\ r.message = MSG_OK
               ELSE IF StartsWith(path, FILES_PREFIX)
                    THEN IF http_request[c].method = GET THEN r.status_code \in {200, 404}
                         ELSE r.status_code = 201
               ELSE IF path = ROOT_PATH
                    THEN r.status_code = 200 /\ r.message = MSG_OK /\ r.body = <<>>
               ELSE r.status_code = 404 /\ r.message = MSG_NOT_FOUND /\ r.body = <<>>

\* a POST to an unknown path was answered 404 with an empty body
C7_Witness ==
    \E c \in Conns :
        /\ Served(c)
        /\ http_request[c].method = POST
        /\ http_request[c].path = PATH_UNKNOWN
        /\ response[c].status_code = 404
        /\ WireBody(sent[c][1]) = <<>>

(***************************************************************************)
(* C8.  A request for /echo/<s> is answered 200 OK with Content-Type       *)
(* text/plain, Content-Length the length of s, and body exactly s.         *)
(***************************************************************************)
\* the number a string of decimal digits denotes, -1 if it is none
RECURSIVE Atoi(_)
Atoi(s) ==
    IF s = <<>> \/ \E i \in 1..Len(s) : s[i] \notin 48..57 THEN -1
    ELSE IF Len(s) = 1 THEN s[1] - 48
    ELSE Atoi(SubSeq(s, 1, Len(s) - 1)) * 10 + (s[Len(s)] - 48)

C8_EchoReturnsSuffix ==
    \A c \in Conns :
        (Built(c) /\ StartsWith(http_request[c].path, ECHO_PREFIX)) =>
            /\ response[c].status_code = 200
            /\ response[c].message = MSG_OK
            /\ DictGet(response[c].headers, H_CONTENT_TYPE, <<>>) = TEXT_PLAIN
            /\ ECHO_PREFIX \o response[c].body = http_request[c].path
            /\ Atoi(DictGet(response[c].headers, H_CONTENT_LENGTH, <<>>)) = Len(response[c].body)
            /\ Served(c) => WireBody(sent[c][1]) = Encode(response[c].body)

\* the twelve characters after /echo/ came back, announced as "12"
C8_Witness ==
    \E c \in Conns :
        /\ Served(c)
        /\ http_request[c].path = PATH_ECHO_LONG
        /\ Len(response[c].body) = 12
        /\ WireHasHeader(sent[c][1], H_CONTENT_LENGTH, DIGITS_TWELVE)

(***************************************************************************)
(* C9.  A request for /user-agent is answered 200 OK, text/plain, with the *)
(* value of its User-Agent header as body, or "Unknown" (Content-Length 7) *)
(* when it has none.                                                       *)
(***************************************************************************)
C9_UserAgentReflected ==
    \A c \in Conns :
        (Built(c) /\ http_request[c].path = USER_AGENT_PATH) =>
            /\ response[c].status_code = 200
            /\ response[c].message = MSG_OK
            /\ DictGet(response[c].headers, H_CONTENT_TYPE, <<>>) = TEXT_PLAIN
            /\ DictHas(http_request[c].headers, H_USER_AGENT) =>
                   \E i \in 1..Len(http_request[c].headers) :
                       /\ http_request[c].headers[i][1] = H_USER_AGENT
                       /\ response[c].body = http_request[c].headers[i][2]
            /\ ~DictHas(http_request[c].headers, H_USER_AGENT) =>
                   /\ response[c].body = UNKNOWN
                   /\ DictGet(response[c].headers, H_CONTENT_LENGTH, <<>>) = DIGIT_SEVEN

\* a request without User-Agent got "Unknown" on the wire
C9_Witness ==
    \E c \in Conns :
        /\ Served(c)
        /\ http_request[c].path = USER_AGENT_PATH
        /\ ~DictHas(http_request[c].headers, H_USER_AGENT)
        /\ WireBody(sent[c][1]) = Encode(UNKNOWN)
        /\ WireHasHeader(sent[c][1], H_CONTENT_LENGTH, DIGIT_SEVEN)

(***************************************************************************)
(* C10.  GET /files/<name> for a name that does not exist under the root   *)
(* is answered 404 Not Found with empty body, without Content-Type and     *)
(* Content-Length, the request's Connection header echoed; the connection  *)
(* stays open unless the request asked for "Connection: close".            *)
(***************************************************************************)
C10_Claim ==
    \A c \in Conns :
        LET name == Filename(http_request[c]) IN
        (/\ ParsedOk(c)
         /\ pc[c] \in {"send", "recv", "closed"}
         /\ exc[c] # "ConnectionResetError"
         /\ http_request[c].method = GET
         /\ StartsWith(http_request[c].path, FILES_PREFIX)
         /\ name # <<>>
         /\ name \notin DOMAIN files) =>
            /\ exc[c] = "none"
            /\ response[c].status_code = 404
            /\ response[c].message = MSG_NOT_FOUND
            /\ response[c].body = <<>>
            /\ ~DictHas(response[c].headers, H_CONTENT_TYPE)
            /\ ~DictHas(response[c].headers, H_CONTENT_LENGTH)
            /\ DictHas(http_request[c].headers, H_CONNECTION) =>
                   DictGet(response[c].headers, H_CONNECTION, <<>>)
                       = DictGet(http_request[c].headers, H_CONNECTION, <<>>)
            /\ (ExchangeOver(c) /\ ~close_connection[c]) => StaysOpen(c)

(***************************************************************************)
(* C11.  Header parsing round-trips (as claimed): in a header block whose  *)
(* lines each hold exactly one ": ", every declared pair (name, value)     *)
(* satisfies headers[name] = value, also when a name is declared twice.    *)
(***************************************************************************)
\* the lines of the header block: after the request line, up to the first empty line
HeaderBlock(text) ==
    LET lines == Split(text, CRLF)
        stops == {i \in 2..Len(lines) : lines[i] = <<>>}
        last == IF stops = {} THEN Len(lines)
                ELSE (CHOOSE i \in stops : \A j \in stops : i <= j) - 1
    IN SubSeq(lines, 2, last)

OneSeparatorEach(block) == \A i \in 1..Len(block) : Len(Split(block[i], COLON_SP)) = 2

DeclaredName(line) == Split(line, COLON_SP)[1]

DeclaredValue(line) == Split(line, COLON_SP)[2]

C11_Claim ==
    \A c \in Conns :
        LET block == HeaderBlock(request[c]) IN
        (ParsedOk(c) /\ OneSeparatorEach(block)) =>
            \A i \in 1..Len(block) :
                /\ DictHas(http_request[c].headers, DeclaredName(block[i]))
                /\ DictGet(http_request[c].headers, DeclaredName(block[i]), <<>>)
                       = DeclaredValue(block[i])

(***************************************************************************)
(* C11, amended.  In such a block every declared name is a key of the      *)
(* mapping, every key is a declared name, and headers[name] = value for    *)
(* the last pair that declares the name: a later declaration of a name     *)
(* overwrites an earlier one.                                              *)
(***************************************************************************)
C11_LastDeclarationWins ==
    \A c \in Conns :
        LET block == HeaderBlock(request[c])
            headers == http_request[c].headers
        IN (ParsedOk(c) /\ OneSeparatorEach(block)) =>
            /\ \A i \in 1..Len(block) :
                   /\ DictHas(headers, DeclaredName(block[i]))
                   /\ (\A j \in (i + 1)..Len(block) : DeclaredName(block[j]) # DeclaredName(block[i]))
                          => DictGet(headers, DeclaredName(block[i]), <<>>) = DeclaredValue(block[i])
            /\ \A k \in 1..Len(headers) :
                   \E i \in 1..Len(block) : DeclaredName(block[i]) = headers[k][1]
            /\ \A k, l \in 1..Len(headers) : headers[k][1] = headers[l][1] => k = l

\* a block declaring X-Tag twice, around another header, parsed to the second value
C11_Witness ==
    \E c \in Conns :
        LET block == HeaderBlock(request[c]) IN
        /\ ParsedOk(c)
        /\ Len(block) = 3
        /\ DeclaredName(block[1]) = H_X_TAG /\ DeclaredValue(block[1]) = V_ONE
        /\ DeclaredName(block[3]) = H_X_TAG /\ DeclaredValue(block[3]) = V_TWO
        /\ DictGet(http_request[c].headers, H_X_TAG, <<>>) = V_TWO
        /\ Len(http_request[c].headers) = 2

(***************************************************************************)
(* C12.  Workers are isolated: a step of the server changes the state of   *)
(* one connection only (its position, request, response, bytes written,    *)
(* closing), so a close, parse failure or handler exception on one         *)
(* connection never closes or alters another; what a connection is sent    *)
(* outside /files/ is the response to its own last request.  (The list of  *)
(* supported encodings and the serving root's path are constants here: no  *)
(* statement of the program assigns them.)                                 *)
(***************************************************************************)
ConnView(c) ==
    <<pc[c], request[c], http_request[c], close_connection[c], response[c], exc[c], sent[c],
      nread[c], nsent[c], peer_closed[c], closes[c]>>

\* the response the dispatch yields for a request outside /files/
OwnResponse(hreq) ==
    IF StartsWith(hreq.path, ECHO_PREFIX) THEN handle_echo(hreq)
    ELSE IF hreq.path = USER_AGENT_PATH THEN handle_user_agent(hreq)
    ELSE IF hreq.path = ROOT_PATH THEN handle_root(hreq)
    ELSE handle_default(hreq)

C12_WorkersIsolated ==
    /\ [](\A c \in Conns :
            /\ (Served(c) /\ ~StartsWith(http_request[c].path, FILES_PREFIX)) =>
                   sent[c][1] = Encode(build_response(OwnResponse(http_request[c])))
            /\ Served(c) => http_request[c] = extract_http_request_from_request(request[c]).req)
    /\ [][\A c, d \in Conns :
            (c # d /\ ConnView(c)' # ConnView(c)) => ConnView(d)' = ConnView(d)]_vars

\* one connection ended by an exception while the other, served, awaits its next request
C12_Witness ==
    \E c, d \in Conns :
        /\ c # d
        /\ pc[c] = "closed" /\ exc[c] \in {"IndexError", "IsADirectoryError", "NotADirectoryError"}
        /\ Served(d) /\ pc[d] = "recv" /\ exc[d] = "none" /\ closes[d] = 0

(***************************************************************************)
(* C13.  File accesses take no lock: a worker that has opened (truncated)  *)
(* a file is never kept from writing it by what other workers do, and its  *)
(* POST is answered 201 Created with empty body whatever ran in between;   *)
(* a GET on another connection can read the file between the truncation    *)
(* and the write and is then answered 200 with a body that is neither the  *)
(* old content nor the POSTed body.                                        *)
(***************************************************************************)
C13_RacingPostsAnswered201 ==
    /\ [](\A c \in Conns : pc[c] = "writing" => ENABLED WriteClose(c))
    /\ [][\A c \in Conns :
            (pc[c] = "writing" /\ pc'[c] # "writing") =>
                /\ pc'[c] = "send"
                /\ response'[c].status_code = 201
                /\ response'[c].message = MSG_CREATED
                /\ response'[c].body = <<>>
                /\ exc'[c] = "none"]_vars

\* a GET of "a" answered 200 with the empty body while the other connection is
\* between truncating "a" and writing "hi" to it
C13_Witness ==
    \E c, d \in Conns :
        /\ c # d
        /\ pc[d] = "writing"
        /\ Filename(http_request[d]) = NAME_A
        /\ http_request[d].body = BODY_HI
        /\ pc[c] = "send"
        /\ http_request[c].method = GET
        /\ http_request[c].path = PATH_FILES_A
        /\ response[c].status_code = 200
        /\ response[c].body = <<>>
        /\ response[c].body # BODY_OLD

\* two workers between opening and finishing the write of the same file
C13_TwoWritersAtOnce ==
    \E c, d \in Conns :
        /\ c # d
        /\ pc[c] = "writing" /\ pc[d] = "writing"
        /\ Filename(http_request[c]) = Filename(http_request[d])

(***************************************************************************)
(* C14.  Writing a response closes the connection exactly when the request *)
(* has a header named exactly "Connection" whose value is "close" in any   *)
(* letter case; otherwise the worker returns to reading.  Whenever the     *)
(* request has a Connection header, its value is copied unchanged, case    *)
(* preserved, into the response's Connection header.                       *)
(***************************************************************************)
\* v spells "close" in some mix of upper and lower case
IsCloseAnyCase(v) ==
    /\ Len(v) = Len(V_CLOSE)
    /\ \A i \in 1..Len(v) : v[i] = V_CLOSE[i] \/ v[i] = V_CLOSE[i] - 32

AsksToClose(headers) ==
    \E i \in 1..Len(headers) : headers[i][1] = H_CONNECTION /\ IsCloseAnyCase(headers[i][2])

C14_CloseIffRequested ==
    /\ [](\A c \in Conns :
            (Built(c) /\ DictHas(http_request[c].headers, H_CONNECTION)) =>
                /\ \E i \in 1..Len(http_request[c].headers) :
                       /\ http_request[c].headers[i][1] = H_CONNECTION
                       /\ DictGet(response[c].headers, H_CONNECTION, <<>>) = http_request[c].headers[i][2]
                       /\ Served(c) => WireHasHeader(sent[c][1], H_CONNECTION, http_request[c].headers[i][2]))
    /\ [][\A c \in Conns :
            (pc[c] = "send" /\ Len(sent'[c]) = Len(sent[c]) + 1) =>
                /\ pc'[c] = "closed" <=> AsksToClose(http_request[c].headers)
                /\ pc'[c] # "closed" => pc'[c] = "recv"
                /\ closes'[c] = closes[c] + (IF AsksToClose(http_request[c].headers) THEN 1 ELSE 0)]_vars

\* "Connection: Close" was echoed with its capital letter and the connection closed
C14_Witness ==
    \E c \in Conns :
        /\ Served(c)
        /\ DictGet(http_request[c].headers, H_CONNECTION, <<>>) = V_CLOSE_CAPITAL
        /\ WireHasHeader(sent[c][1], H_CONNECTION, V_CLOSE_CAPITAL)
        /\ pc[c] = "closed" /\ exc[c] = "none" /\ ~peer_closed[c]

\* "connection: close" (lower-case name) was served and the worker reads on
C14_LowerCaseNameStaysOpen ==
    \E c \in Conns :
        /\ Served(c)
        /\ DictGet(http_request[c].headers, H_CONNECTION_LOWER, <<>>) = V_CLOSE
        /\ ~DictHas(response[c].headers, H_CONNECTION)
        /\ pc[c] = "recv"

(***************************************************************************)
(* C15.  At most one request is in flight on a connection: the worker is   *)
(* back at reading only after the response to the last request was         *)
(* written, and every successfully parsed request gets exactly one         *)
(* response, so that responses and requests read pair up in order.         *)
(* (A reset of the socket by the peer is not held against the worker.)     *)
(***************************************************************************)
C15_Claim ==
    \A c \in Conns :
        /\ Len(sent[c]) <= 1
        /\ nsent[c] <= nread[c]
        /\ (pc[c] = "recv" /\ nread[c] > 0) => (Served(c) /\ nsent[c] = nread[c])
        /\ (ParsedOk(c) /\ ExchangeOver(c) /\ exc[c] # "ConnectionResetError") =>
               (Served(c) /\ nsent[c] = nread[c])

(***************************************************************************)
(* C16.  The connection is released on every way out of the loop: a worker *)
(* is out of the loop exactly when it has closed its connection, which it  *)
(* does once; a read of zero bytes leads straight to the close, with       *)
(* nothing parsed and nothing written; after the close the worker does     *)
(* nothing more on the connection.                                         *)
(***************************************************************************)
C16_ReleasedOnEveryExit ==
    /\ [](\A c \in Conns :
            /\ closes[c] \in {0, 1}
            /\ pc[c] = "closed" <=> closes[c] = 1
            /\ peer_closed[c] => (pc[c] = "closed" /\ exc[c] = "none")
            /\ exc[c] # "none" => pc[c] = "closed")
    /\ [][\A c \in Conns :
            /\ pc[c] = "closed" => ConnView(c)' = ConnView(c)
            /\ (peer_closed'[c] /\ ~peer_closed[c]) =>
                   /\ pc[c] = "recv" /\ pc'[c] = "closed"
                   /\ <<request[c], http_request[c], response[c], sent[c], nread[c], nsent[c]>>'
                          = <<request[c], http_request[c], response[c], sent[c], nread[c], nsent[c]>>
                   /\ files' = files]_vars

\* one connection closed on a read of zero bytes before any request, the other
\* closed by a handler's exception
C16_Witness ==
    \E c, d \in Conns :
        /\ peer_closed[c] /\ nread[c] = 0 /\ sent[c] = <<>> /\ closes[c] = 1
        /\ exc[d] \in {"IsADirectoryError", "NotADirectoryError"} /\ closes[d] = 1 /\ pc[d] = "closed"

(***************************************************************************)
(* C18.  The bytes sent are exactly: the status line "<protocol> <code>    *)
(* <reason>", then one line "<name>: <value>" per header of the response   *)
(* in the mapping's order and no other line (no Content-Length of the      *)
(* serializer's own), then an empty line, then the body as it is, nothing  *)
(* after it, also when the response has a Content-Encoding header.         *)
(***************************************************************************)
C18_WireFormat ==
    \A c \in Conns :
        Served(c) =>
            LET r == response[c]
                parts == Split1(sent[c][1], CRLFCRLF)
                lines == Split(parts[1], CRLF)
                code == SubSeq(lines[1], Len(r.protocol) + 2, Len(lines[1]) - Len(r.message) - 1)
            IN /\ Len(parts) = 2
               /\ lines[1] = Encode(r.protocol) \o SP \o code \o SP \o Encode(r.message)
               /\ Atoi(code) = r.status_code
               /\ Len(lines) = 1 + Len(r.headers)
               /\ \A i \in 1..Len(r.headers) :
                      lines[i + 1] = Encode(r.headers[i][1] \o COLON_SP \o r.headers[i][2])
               /\ parts[2] = Encode(r.body)

\* an echo response negotiated as gzip went out with its three headers and the body as is
C18_Witness ==
    \E c \in Conns :
        /\ Served(c)
        /\ http_request[c].path = PATH_ECHO_ABC
        /\ DictGet(response[c].headers, H_CONTENT_ENCODING, <<>>) = V_GZIP_TOKEN
        /\ Len(response[c].headers) = 3
        /\ Len(Split(Split1(sent[c][1], CRLFCRLF)[1], CRLF)) = 4
        /\ WireBody(sent[c][1]) = <<97, 98, 99>>

(***************************************************************************)
(* C17.  The headers a handler supplies are authoritative in the result of *)
(* generate_response_headers: every key of the additional headers keeps    *)
(* the value the handler gave it, whatever the request headers are.        *)
(***************************************************************************)
C17_Claim ==
    negotiation.called =>
        \A i \in 1..Len(negotiation.additional_headers) :
            LET key == negotiation.additional_headers[i][1]
                value == negotiation.additional_headers[i][2]
            IN \E j \in 1..Len(negotiation.headers) :
                   negotiation.headers[j] = <<key, value>>

(***************************************************************************)
(* C19.  Effect on the files: a request whose path starts with /files/ and *)
(* whose method is not exactly GET makes the file named by the rest of the *)
(* path hold exactly the request body and is answered 201 Created with     *)
(* empty body; no other file changes, and no other request changes any     *)
(* file.                                                                   *)
(***************************************************************************)
WritesFile(hreq) == StartsWith(hreq.path, FILES_PREFIX) /\ hreq.method # GET

C19_Claim ==
    /\ [](\A c \in Conns :
            (/\ ParsedOk(c)
             /\ ExchangeOver(c)
             /\ exc[c] # "ConnectionResetError"
             /\ WritesFile(http_request[c])) =>
                /\ Served(c)
                /\ response[c].status_code = 201
                /\ response[c].message = MSG_CREATED
                /\ response[c].body = <<>>
                /\ Filename(http_request[c]) \in DOMAIN files
                /\ files[Filename(http_request[c])] = Encode(http_request[c].body))
    /\ [][files' # files =>
            \E c \in Conns :
                /\ pc[c] \in {"routing", "writing"}
                /\ WritesFile(http_request[c])
                /\ \A n \in (DOMAIN files \cup DOMAIN files') \ {Filename(http_request[c])} :
                       n \in DOMAIN files /\ n \in DOMAIN files' /\ files'[n] = files[n]]_vars

(***************************************************************************)
(* C20.  A chunk is one message: the text parsed is the text of one chunk  *)
(* read (never a chunk appended to an earlier one), it yields at most one  *)
(* response, and the body of the request is everything after the first     *)
(* empty line of the chunk, a second request included; that body is what a *)
(* /files/ write stores.                                                   *)
(***************************************************************************)
ChunkTexts == {Decode(chunk).s : chunk \in SeqChunks \cup ConcChunks}

\* everything after the first "\r\n\r\n" of text, empty if there is none
AfterFirstEmptyLine(text) ==
    LET at == {i \in 1..(Len(text) - 3) : SubSeq(text, i, i + 3) = CRLFCRLF} IN
    IF at = {} THEN <<>>
    ELSE SubSeq(text, (CHOOSE i \in at : \A j \in at : i <= j) + 4, Len(text))

C20_ChunkIsOneMessage ==
    \A c \in Conns :
        /\ Len(sent[c]) <= 1
        /\ nsent[c] <= nread[c]
        /\ nread[c] > 0 => request[c] \in ChunkTexts \cup {<<>>}
        /\ ParsedOk(c) => http_request[c].body = AfterFirstEmptyLine(request[c])
        /\ (Served(c) /\ WritesFile(http_request[c]) /\ pc[c] = "recv") =>
               /\ posted[Filename(http_request[c])] = AfterFirstEmptyLine(request[c])
               /\ files[Filename(http_request[c])] = Encode(AfterFirstEmptyLine(request[c]))

\* one chunk holding a POST to /files/a followed by a GET of /: one response,
\* 201, and the text of the GET is the content of file "a"
C20_Witness ==
    \E c \in Conns :
        /\ nread[c] = 1 /\ nsent[c] = 1 /\ Served(c) /\ pc[c] = "recv"
        /\ http_request[c].method = POST
        /\ http_request[c].path = PATH_FILES_A
        /\ response[c].status_code = 201
        /\ NAME_A \in DOMAIN files
        /\ files[NAME_A] = Req(GET, ROOT_PATH, <<>>, <<>>)

\* the tail "hi" of a split POST, read as the second chunk, failed to parse on
\* its own and left the file written by the first chunk empty
C20_FragmentParsedAlone ==
    \E c \in Conns :
        /\ nread[c] = 2 /\ nsent[c] = 1
        /\ request[c] = BODY_HI
        /\ pc[c] = "closed" /\ exc[c] = "IndexError"
        /\ NAME_A \in DOMAIN files /\ files[NAME_A] = <<>>

=============================================================================
